---------------------------- MODULE Spec2Model ----------------------------
(***************************************************************************)
(* Model of the kubetest2-aks deployer: Build (deployer/build.go), Up      *)
(* (deployer/up.go and the earlier variants kept in the repository) and    *)
(* Down.  The deployer is single-threaded: one invocation runs at a time   *)
(* and `pc` is its position.  `log` records, in order, every call the      *)
(* running invocation makes to the outside (cloud API, HTTP, subprocess,   *)
(* file system).  The provider, the subprocesses and the file system are   *)
(* the environment: each call nondeterministically succeeds or fails.      *)
(***************************************************************************)
EXTENDS Integers, Sequences, FiniteSets, TLC

(* ------------------------------ bounds -------------------------------- *)
\* longest credential list the provider returns in the model
MaxKubeconfigs == 2
\* longest kubeconfig value (in bytes) in the model
MaxBytes == 1

(* -------------------------- program constants ------------------------- *)
\* up.go:44
defaultKubeconfigDir == "_output/kubetest2-aks/kubeconfig"
\* build.go:36
gitClonePath == "_git"
\* build.go:31-35: the allow-list of components and their clone URLs
customConfigComponents ==
    [ t \in {"cloud-provider-azure", "azure-file", "azure-disk"} |->
        CASE t = "cloud-provider-azure" ->
                 "https://github.com/kubernetes-sigs/cloud-provider-azure.git"
          [] t = "azure-file" ->
                 "https://github.com/kubernetes-sigs/azurefile-csi-driver.git"
          [] t = "azure-disk" ->
                 "https://github.com/kubernetes-sigs/azuredisk-csi-driver.git" ]

\* a reordering of the make targets (push before build)
targetsSwapped ==
    << "push-ccm-image-amd64", "build-ccm-image-amd64",
       "build-node-image-linux-amd64", "push-node-image-linux-amd64" >>
\* build.go:66 and up.go:66: the make targets, in the order they are run
targets ==
    << "build-ccm-image-amd64", "push-ccm-image-amd64",
       "build-node-image-linux-amd64", "push-node-image-linux-amd64" >>

\* up.go:169: wait.PollImmediate(10*time.Second, 3*time.Minute, ...)
PollInterval == 10
PollTimeout == 180
\* number of ticker periods that fit in the timeout
MaxTicks == PollTimeout \div PollInterval

(* ------------------------------ inputs -------------------------------- *)
\* values of AZURE_RESOURCEGROUP (deployer.go:45); fixed for a process
RGNames == {"rg-a"}
\* a resource group of another deployment, with a kubeconfig path of its own
OtherRGNames == {"rg-b"}
\* --cluster-name
clusterName == "aks-cluster"
\* CLOUD_PROVIDER_REPO_PATH (up.go:46)
cloudProviderRepoPath == "/cpa"
\* values of the --target, --targetPath and --targetTag flags
TargetValues == {"cloud-provider-azure", "azure-file", "azure-disk", "kubelet", ""}
PathValues == {"", "/repo"}
TagValues == {"", "v1.24.4"}
\* HTTP status codes the cluster-management endpoint answers with
StatusCodes == {200, 201, 399, 400, 404, 500}
\* bytes of a kubeconfig
Bytes == {65}

RECURSIVE SeqsUpTo(_, _)
\* all sequences over S of length at most n
SeqsUpTo(S, n) ==
    IF n = 0 THEN {<< >>}
    ELSE LET shorter == SeqsUpTo(S, n - 1)
         IN  shorter \cup { Append(s, x) : s \in shorter, x \in S }

\* kubeconfig values and credential lists the provider can return
KubeconfigValues == SeqsUpTo(Bytes, MaxBytes)
KubeconfigLists == SeqsUpTo(KubeconfigValues, MaxKubeconfigs)

\* the content of a file that does not exist (no byte is negative)
NoFile == << -1 >>

\* the source files that hold an implementation of Up, and of Down
UpVariants == {"up.go", "part_001", "deployer.go"}
DownVariants == {"part_000", "deployer.go"}

VARIABLES
    pc,                \* position of the running invocation, "idle" if none
    op,                \* "none", "Build", "Up" or "Down": the last invocation started
    variant,           \* the source file whose Up / Down is running
    ret,               \* "none" while running; "ok" (nil), "err" (error returned),
                       \* "fatal" (log.Fatalf / klog.Fatalf: the process exits)
    failedAt,          \* the step that failed, "none" if none
    log,               \* the outside calls of the invocation, in order
    buildRequested,    \* the harness run was started with --build
    Target, TargetPath, TargetTag,   \* BuildOptions (build.go:39-44) of a Build
    path,              \* the working tree makeCCMImages runs on
    ti,                \* index in `targets` of the next make target
    resourceGroupName, \* AZURE_RESOURCEGROUP
    rgs,               \* resource groups that exist at the provider
    httpStatus,        \* status of the cluster-creation response, 0 if none
    elapsed,           \* ticker periods elapsed in the running poll, 0 if none
    chClosed,          \* the poller's timeout fired and closed its channel
    attempts,          \* credential requests made by this poll
    lateAttempts,      \* credential requests made after the timeout fired
    notFound,          \* how many of them answered "404 Not Found"
    lastResp,          \* answer to the latest credential request
    kubeconfigs,       \* resp.CredentialResults.Kubeconfigs
    fs,                \* kubeconfig files: path -> content or NoFile
    fileTouched,       \* this invocation created, truncated or wrote the file
    cloneDir,          \* the scratch clone directory holds a repository
    checkedOut,        \* outcome of worktree.Checkout: "none", "ok", "failed"
    errTarget,         \* the make target the returned error names, "" if none
    \* --- rendering of the request body (up.go:93-131); texts are sequences
    \* of chunks, a chunk being a placeholder name or text that holds none
    renderPc,          \* "off", "outer", "inner" or "done"
    basicLBFile,       \* text of cluster-templates/basic-lb.json
    customConfigFile,  \* text of cluster-templates/customconfiguration.json
    replacing,         \* up.go:103-110: placeholder -> text
    imageMap,          \* up.go:121-124: placeholder -> text
    todo,              \* keys the running `range` loop has not visited yet
    clusterConfig,     \* up.go:102
    customConfig       \* up.go:125

vars == << pc, op, variant, ret, failedAt, log, buildRequested,
           Target, TargetPath, TargetTag, path, ti, resourceGroupName, rgs,
           httpStatus, elapsed, chClosed, attempts, lateAttempts, notFound,
           lastResp, kubeconfigs, fs, fileTouched, cloneDir, checkedOut,
           errTarget, renderPc, basicLBFile, customConfigFile, replacing,
           imageMap, todo, clusterConfig, customConfig >>

\* the variables of the rendering, and those of everything else
renderVars == << renderPc, basicLBFile, customConfigFile, replacing, imageMap,
                 todo, clusterConfig, customConfig >>
deployVars == << pc, op, variant, ret, failedAt, log, buildRequested,
                 Target, TargetPath, TargetTag, path, ti, resourceGroupName, rgs,
                 httpStatus, elapsed, chClosed, attempts, lateAttempts, notFound,
                 lastResp, kubeconfigs, fs, fileTouched, cloneDir, checkedOut,
                 errTarget >>

\* variables of one invocation's bookkeeping, and of the state that persists
buildVars == << Target, TargetPath, TargetTag >>
pollVars == << elapsed, chClosed, attempts, lateAttempts, notFound, lastResp, kubeconfigs >>
worldVars == << rgs, fs, cloneDir >>

\* up.go:189: fmt.Sprintf("%s/%s_%s.kubeconfig", dir, rg, cluster)
destPath(dir, rg, cluster) == dir \o "/" \o rg \o "_" \o cluster \o ".kubeconfig"

\* the kubeconfig files that can exist in the output directory
KubeconfigPaths ==
    { destPath(defaultKubeconfigDir, rg, clusterName) : rg \in RGNames \cup OtherRGNames }

\* the deployer before its first invocation
DeployInit ==
    /\ pc = "idle" /\ op = "none" /\ variant = "none"
    /\ ret = "none" /\ failedAt = "none" /\ log = << >>
    /\ buildRequested = FALSE
    /\ Target = "" /\ TargetPath = "" /\ TargetTag = ""
    /\ path = "" /\ ti = 1
    /\ resourceGroupName \in RGNames
    /\ rgs = {}
    /\ httpStatus = 0
    /\ elapsed = 0 /\ chClosed = FALSE /\ attempts = 0 /\ lateAttempts = 0
    /\ notFound = 0 /\ lastResp = "none" /\ kubeconfigs = << >>
    /\ fs = [ p \in KubeconfigPaths |-> NoFile ]
    /\ fileTouched = FALSE
    /\ cloneDir = FALSE
    /\ checkedOut = "none"
    /\ errTarget = ""

\* no rendering is looked at
RenderOff ==
    /\ renderPc = "off"
    /\ basicLBFile = << >> /\ customConfigFile = << >>
    /\ replacing = << >> /\ imageMap = << >>
    /\ todo = {} /\ clusterConfig = << >> /\ customConfig = << >>

Init == DeployInit /\ RenderOff

\* an outside call is made: what is called, where, and on what
Call(name, where, what) == log' = Append(log, << name, where, what >>)

\* the invocation returns r; `at` names the failing step
Return(r, at) == pc' = "idle" /\ ret' = r /\ failedAt' = at

\* a new invocation starts: the per-invocation bookkeeping is reset
Begin(o, v, first) ==
    /\ pc = "idle"
    /\ op' = o /\ variant' = v /\ pc' = first
    /\ ret' = "none" /\ failedAt' = "none" /\ log' = << >>
    /\ path' = "" /\ ti' = 1 /\ httpStatus' = 0
    /\ elapsed' = 0 /\ chClosed' = FALSE /\ attempts' = 0 /\ lateAttempts' = 0
    /\ notFound' = 0 /\ lastResp' = "none" /\ kubeconfigs' = << >>
    /\ fileTouched' = FALSE /\ checkedOut' = "none" /\ errTarget' = ""
    /\ UNCHANGED << resourceGroupName, worldVars, renderVars >>


(* ============================ build.go ================================ *)

\* verifyBuildFlags with the path/tag test inverted to "at least one set"
verifyBuildFlagsAtLeastOne(t, p, g) ==
    IF t \notin DOMAIN customConfigComponents THEN "component not supported"
    ELSE IF p = "" /\ g = "" THEN "only one of TargetPath and TargetTag should be set"
    ELSE "nil"
\* build.go:46-56
verifyBuildFlags(t, p, g) ==
    IF t \notin DOMAIN customConfigComponents THEN "component not supported"
    ELSE IF (p # "" /\ g # "") \/ (p = "" /\ g = "")
         THEN "only one of TargetPath and TargetTag should be set"
    ELSE "nil"

\* build.go:92: fmt.Sprintf("%s/cloud-provider-azure", gitClonePath)
ccmPath == gitClonePath \o "/cloud-provider-azure"

\* the harness calls Build with the flags of the command line
StartBuild ==
    /\ Begin("Build", "build.go", "build_verify")
    /\ buildRequested' = TRUE
    /\ Target' \in TargetValues
    /\ TargetPath' \in PathValues
    /\ TargetTag' \in TagValues

\* build.go:113-132: Build up to the choice of working tree
BuildVerify ==
    /\ pc = "build_verify"
    /\ IF verifyBuildFlags(Target, TargetPath, TargetTag) # "nil"
       THEN Return("err", "verify") /\ UNCHANGED path
       ELSE IF Target = "cloud-provider-azure"
            THEN IF TargetPath # ""
                 \* build.go:81-87 makeCCMImagesByPath
                 THEN pc' = "ccm_show" /\ path' = TargetPath
                      /\ UNCHANGED << ret, failedAt >>
                 ELSE pc' = "tag_clone" /\ UNCHANGED << ret, failedAt, path >>
            ELSE Return("ok", "none") /\ UNCHANGED path
    /\ UNCHANGED << renderVars, op, variant, log, buildRequested, buildVars, ti,
                    resourceGroupName, httpStatus, pollVars, worldVars,
                    fileTouched, checkedOut, errTarget >>

\* build.go:90-100: git.PlainClone into the scratch directory, which Build
\* never removes.  PlainClone refuses a path that already holds a repository
\* (ErrRepositoryAlreadyExists); a clone that fails for another reason leaves
\* the half-made repository behind or cleans it up, depending on the go-git
\* release (go.mod does not pin one).
TagClone ==
    /\ pc = "tag_clone"
    /\ Call("clone", ccmPath, customConfigComponents[Target])
    /\ \/ /\ cloneDir
          /\ Return("err", "clone_exists") /\ UNCHANGED cloneDir
       \/ /\ ~cloneDir
          /\ \/ cloneDir' = TRUE /\ pc' = "tag_checkout"
                /\ UNCHANGED << ret, failedAt >>
             \/ Return("err", "clone") /\ cloneDir' \in BOOLEAN
    /\ UNCHANGED << renderVars, op, variant, buildRequested, buildVars, path, ti,
                    resourceGroupName, rgs, fs, httpStatus, pollVars,
                    fileTouched, checkedOut, errTarget >>

\* build.go:102-110: the worktree of a non-bare clone, then Checkout of
\* refs/tags/<tag>, whose error is not looked at
TagCheckout ==
    /\ pc = "tag_checkout"
    /\ Call("checkout", ccmPath, "refs/tags/" \o TargetTag)
    /\ checkedOut' \in {"ok", "failed"}
    /\ path' = ccmPath
    /\ pc' = "ccm_show"
    /\ UNCHANGED << renderVars, op, variant, ret, failedAt, buildRequested, buildVars, ti,
                    resourceGroupName, httpStatus, pollVars, worldVars,
                    fileTouched, errTarget >>

\* build.go:60-63: git -C path show --stat
CcmShow ==
    /\ pc = "ccm_show"
    /\ Call("git show", path, "--stat")
    /\ \/ pc' = "ccm_make" /\ ti' = 1 /\ UNCHANGED << ret, failedAt >>
       \/ Return("err", "show") /\ UNCHANGED ti
    /\ UNCHANGED << renderVars, op, variant, buildRequested, buildVars, path,
                    resourceGroupName, httpStatus, pollVars, worldVars,
                    fileTouched, checkedOut, errTarget >>

\* CcmMake that notes the failure of a target and goes on with the next one
CcmMakeKeepGoing ==
    /\ pc = "ccm_make"
    /\ ti <= Len(targets)
    /\ Call("make", path, targets[ti])
    /\ ti' = ti + 1
    /\ pc' = IF ti = Len(targets) THEN "ccm_revparse" ELSE "ccm_make"
    /\ \/ UNCHANGED errTarget
       \/ errTarget' = targets[ti]
    /\ UNCHANGED << ret, failedAt >>
    /\ UNCHANGED << renderVars, op, variant, buildRequested, buildVars, path,
                    resourceGroupName, httpStatus, pollVars, worldVars,
                    fileTouched, checkedOut >>
\* build.go:66-71: one iteration of the loop over the make targets; the
\* error of a failing target names it ("failed to make %s: %v")
CcmMake ==
    /\ pc = "ccm_make"
    /\ ti <= Len(targets)
    /\ Call("make", path, targets[ti])
    /\ \/ /\ ti' = ti + 1
          /\ pc' = IF ti = Len(targets) THEN "ccm_revparse" ELSE "ccm_make"
          /\ UNCHANGED << ret, failedAt, errTarget >>
       \/ Return("err", "make") /\ errTarget' = targets[ti] /\ UNCHANGED ti
    /\ UNCHANGED << renderVars, op, variant, buildRequested, buildVars, path,
                    resourceGroupName, httpStatus, pollVars, worldVars,
                    fileTouched, checkedOut >>

\* build.go:73-78 and 123-131: git rev-parse gives the image tag; Build
\* logs it and returns nil
CcmRevParse ==
    /\ pc = "ccm_revparse"
    /\ Call("git rev-parse", path, "HEAD")
    /\ \/ Return("ok", "none")
       \/ Return("err", "revparse")
    /\ UNCHANGED << renderVars, op, variant, buildRequested, buildVars, path, ti,
                    resourceGroupName, httpStatus, pollVars, worldVars,
                    fileTouched, checkedOut, errTarget >>

Build == BuildVerify \/ TagClone \/ TagCheckout \/ CcmShow \/ CcmMake \/ CcmRevParse


(* ================== Up: up.go, part_001, deployer.go ================== *)

\* the body of Up with the token fetched before the resource group is made
upStepsTokenFirst == << "cred", "token", "rg", "images", "create", "kubeconfig" >>
\* up.go:202-237: the steps of Up, in the order of its body
upSteps == << "cred", "rg", "token", "images", "create", "kubeconfig" >>
\* part_001:112-135: Up without image build and without kubeconfig retrieval
upStepsPart001 == << "cred", "rg", "token", "create" >>
\* deployer.go:84-98: Up that only creates the resource group
upStepsDeployer == << "cred", "rg" >>

\* the body of the running variant of Up
StepsOf(v) ==
    CASE v = "up.go" -> upSteps
      [] v = "part_001" -> upStepsPart001
      [] v = "deployer.go" -> upStepsDeployer

\* control passes to the statement after `step`; after the last one Up
\* returns nil
Continue(step) ==
    LET body == StepsOf(variant)
        i == CHOOSE k \in 1..Len(body) : body[k] = step
    IN  IF i = Len(body)
        THEN Return("ok", "none")
        ELSE pc' = body[i + 1] /\ UNCHANGED << ret, failedAt >>

\* the harness calls Up, in a run started with or without --build
StartUp ==
    \E v \in UpVariants, sameRun \in BOOLEAN :
        /\ Begin("Up", v, StepsOf(v)[1])
        /\ buildRequested' = (sameRun /\ buildRequested)
        /\ Target' = "" /\ TargetPath' = "" /\ TargetTag' = ""

\* up.go:204-207 (part_001:114-117, deployer.go:86-89):
\* azidentity.NewDefaultAzureCredential; a failure ends the process
UpNewCredential ==
    /\ pc = "cred"
    /\ Call("NewDefaultAzureCredential", "", "")
    /\ \/ Continue("cred")
       \/ Return("fatal", "cred")
    /\ UNCHANGED << renderVars, op, variant, buildRequested, buildVars, path, ti,
                    resourceGroupName, httpStatus, pollVars, worldVars,
                    fileTouched, checkedOut, errTarget >>

\* up.go:210-214 with createResourceGroup, up.go:82-90 (part_001:119-123;
\* deployer.go:91-94, where the failure ends the process)
UpCreateResourceGroup ==
    /\ pc = "rg"
    /\ Call("CreateOrUpdate", resourceGroupName, "")
    /\ \/ rgs' = rgs \cup {resourceGroupName} /\ Continue("rg")
       \/ /\ UNCHANGED rgs
          /\ Return(IF variant = "deployer.go" THEN "fatal" ELSE "err", "rg")
    /\ UNCHANGED << renderVars, op, variant, buildRequested, buildVars, path, ti,
                    resourceGroupName, fs, cloneDir, httpStatus, pollVars,
                    fileTouched, checkedOut, errTarget >>

\* UpGetToken that carries on after a failed token request
UpGetTokenIgnoringError ==
    /\ pc = "token"
    /\ Call("GetToken", "https://management.azure.com/.default", "")
    /\ \/ Continue("token")
       \/ pc' = "images" /\ failedAt' = "token" /\ UNCHANGED ret
    /\ UNCHANGED << renderVars, op, variant, buildRequested, buildVars, path, ti,
                    resourceGroupName, httpStatus, pollVars, worldVars,
                    fileTouched, checkedOut, errTarget >>
\* up.go:216-219 (part_001:125-128): cred.GetToken
UpGetToken ==
    /\ pc = "token"
    /\ Call("GetToken", "https://management.azure.com/.default", "")
    /\ \/ Continue("token")
       \/ Return("err", "token")
    /\ UNCHANGED << renderVars, op, variant, buildRequested, buildVars, path, ti,
                    resourceGroupName, httpStatus, pollVars, worldVars,
                    fileTouched, checkedOut, errTarget >>

\* up.go:58-62 (makeImages, called at up.go:222): git show --stat
UpMakeShow ==
    /\ pc = "images"
    /\ Call("git show", ".", "--stat")
    /\ \/ pc' = "images_make" /\ ti' = 1 /\ UNCHANGED << ret, failedAt >>
       \/ Return("err", "images") /\ UNCHANGED ti
    /\ UNCHANGED << renderVars, op, variant, buildRequested, buildVars, path,
                    resourceGroupName, httpStatus, pollVars, worldVars,
                    fileTouched, checkedOut, errTarget >>

\* up.go:66-71: one iteration of the loop over the make targets; the error
\* of a failing target names it ("failed to make %s: %v")
UpMake ==
    /\ pc = "images_make"
    /\ ti <= Len(targets)
    /\ Call("make", cloudProviderRepoPath, targets[ti])
    /\ \/ /\ ti' = ti + 1
          /\ pc' = IF ti = Len(targets) THEN "images_revparse" ELSE "images_make"
          /\ UNCHANGED << ret, failedAt, errTarget >>
       \/ Return("err", "images") /\ errTarget' = targets[ti] /\ UNCHANGED ti
    /\ UNCHANGED << renderVars, op, variant, buildRequested, buildVars, path,
                    resourceGroupName, httpStatus, pollVars, worldVars,
                    fileTouched, checkedOut >>

\* up.go:73-78 and 222-225: git rev-parse gives the image tag
UpMakeRevParse ==
    /\ pc = "images_revparse"
    /\ Call("git rev-parse", ".", "HEAD")
    /\ \/ Continue("images")
       \/ Return("err", "images")
    /\ UNCHANGED << renderVars, op, variant, buildRequested, buildVars, path, ti,
                    resourceGroupName, httpStatus, pollVars, worldVars,
                    fileTouched, checkedOut, errTarget >>

\* up.go:94-136 (part_001:50-88): the two template files are read and the
\* request body is rendered; a file that cannot be read is an error
AKSRender ==
    /\ pc = "create"
    /\ Call("render", "cluster-templates/basic-lb.json",
                      "cluster-templates/customconfiguration.json")
    /\ \/ pc' = "create_send" /\ UNCHANGED << ret, failedAt >>
       \/ Return("err", "create")
    /\ UNCHANGED << renderVars, op, variant, buildRequested, buildVars, path, ti,
                    resourceGroupName, httpStatus, pollVars, worldVars,
                    fileTouched, checkedOut, errTarget >>

\* up.go:133 sends a PUT, part_001:85 a POST
Method(v) == IF v = "up.go" THEN "PUT" ELSE "POST"

\* up.go:154-156: a status of 400 or more is a failure; part_001:101-109
\* does not look at the status
StatusIsFailure(v, code) == v = "up.go" /\ code >= 400

\* up.go:148-159 and 228-230 (part_001:101-109 and 129-132): client.Do and
\* what is made of its answer
AKSSend ==
    /\ pc = "create_send"
    /\ Call(Method(variant), resourceGroupName, clusterName)
    /\ \/ Return("err", "create") /\ UNCHANGED httpStatus
       \/ \E code \in StatusCodes :
            /\ httpStatus' = code
            /\ IF StatusIsFailure(variant, code)
               THEN Return("err", "create")
               ELSE Continue("create")
    /\ UNCHANGED << renderVars, op, variant, buildRequested, buildVars, path, ti,
                    resourceGroupName, pollVars, worldVars,
                    fileTouched, checkedOut, errTarget >>

Up == UpNewCredential \/ UpCreateResourceGroup \/ UpGetToken
        \/ UpMakeShow \/ UpMake \/ UpMakeRevParse \/ AKSRender \/ AKSSend


(* ================== up.go: getAKSKubeconfig, 162-200 ================== *)

\* answers of ListClusterUserCredentials: the credentials, an error whose
\* text holds "404 Not Found", or any other error
Responses == {"ok", "notfound", "othererr"}

\* condition that retries on every error
conditionRetryAll(r) ==
    IF r = "ok" THEN << TRUE, "nil" >> ELSE << FALSE, "nil" >>
\* up.go:169-179: the condition function handed to wait.PollImmediate,
\* as the pair (done, err) it returns for an answer r
condition(r) ==
    IF r # "ok"
    THEN IF r = "notfound" THEN << FALSE, "nil" >> ELSE << FALSE, "err" >>
    ELSE << TRUE, "nil" >>

\* PollOutcome that looks at the timeout before the answer
PollOutcomeTimeoutFirst(r, closed) ==
    IF closed THEN "timeout"
    ELSE IF condition(r)[2] # "nil" THEN "error"
    ELSE IF condition(r)[1] THEN "done"
    ELSE "again"
\* up.go:169: wait.PollImmediate (k8s.io/apimachinery v0.24.3, go.mod) after
\* one run of the condition: its error ends the poll, done ends it with nil,
\* otherwise the poll goes on unless the timeout has closed the channel
PollOutcome(r, closed) ==
    IF condition(r)[2] # "nil" THEN "error"
    ELSE IF condition(r)[1] THEN "done"
    ELSE IF closed THEN "timeout"
    ELSE "again"

\* up.go:170: one credential request with answer r (and credentials ks) when
\* e periods have elapsed, and up.go:180-182: what getAKSKubeconfig does when
\* the poll ends with it.  The ticker and the timer live only while
\* PollImmediate runs.
Attempt(r, ks, closed, e) ==
    /\ Call("ListClusterUserCredentials", resourceGroupName, clusterName)
    /\ attempts' = attempts + 1
    /\ lateAttempts' = IF closed THEN lateAttempts + 1 ELSE lateAttempts
    /\ notFound' = IF r = "notfound" THEN notFound + 1 ELSE notFound
    /\ lastResp' = r
    /\ kubeconfigs' = ks
    /\ chClosed' = closed
    /\ LET o == PollOutcome(r, closed)
       IN  /\ elapsed' = IF o = "again" THEN e ELSE 0
           /\ CASE o = "error" -> Return("err", "poll_error")
                [] o = "timeout" -> Return("err", "poll_timeout")
                [] o = "done" -> pc' = "kc_pick" /\ UNCHANGED << ret, failedAt >>
                [] o = "again" -> pc' = "poll_wait" /\ UNCHANGED << ret, failedAt >>

\* the answers of the provider with the credential list each carries
Answers ==
    { << "ok", ks >> : ks \in KubeconfigLists }
        \cup { << r, << >> >> : r \in Responses \ {"ok"} }

\* up.go:163-166: NewManagedClustersClient
KcNewClient ==
    /\ pc = "kubeconfig"
    /\ Call("NewManagedClustersClient", "", "")
    /\ \/ pc' = "poll_first" /\ UNCHANGED << ret, failedAt >>
       \/ Return("err", "client")
    /\ UNCHANGED << renderVars, op, variant, buildRequested, buildVars, path, ti,
                    resourceGroupName, httpStatus, pollVars, worldVars,
                    fileTouched, checkedOut, errTarget >>

\* up.go:169: PollImmediate runs the condition once before any wait; the
\* ticker and the timeout timer start after it
PollFirst ==
    /\ pc = "poll_first"
    /\ \E a \in Answers : Attempt(a[1], a[2], FALSE, 0)
    /\ UNCHANGED << renderVars, op, variant, buildRequested, buildVars, path, ti,
                    resourceGroupName, httpStatus, worldVars,
                    fileTouched, checkedOut, errTarget >>

\* up.go:169: a tick of the 10s ticker reaches the waiting poll, which runs
\* the condition.  The tick at the very timeout races with the timer.
PollTick ==
    /\ pc = "poll_wait"
    /\ elapsed < MaxTicks
    /\ \E a \in Answers : Attempt(a[1], a[2], FALSE, elapsed + 1)
    /\ UNCHANGED << renderVars, op, variant, buildRequested, buildVars, path, ti,
                    resourceGroupName, httpStatus, worldVars,
                    fileTouched, checkedOut, errTarget >>

\* up.go:169: a tick is dropped: the previous request took longer than
\* the interval and nobody was waiting for the tick
PollTickDropped ==
    /\ pc = "poll_wait"
    /\ elapsed < MaxTicks
    /\ elapsed' = elapsed + 1
    /\ UNCHANGED << renderVars, pc, op, variant, ret, failedAt, log, buildRequested,
                    buildVars, path, ti, resourceGroupName, httpStatus,
                    chClosed, attempts, lateAttempts, notFound, lastResp,
                    kubeconfigs, worldVars, fileTouched, checkedOut, errTarget >>

\* up.go:169: the 3 min timer fires and closes the channel; the waiting poll
\* runs the condition once more and, if it is still not done, gives up
PollTimeoutFires ==
    /\ pc = "poll_wait"
    /\ elapsed >= MaxTicks - 1
    /\ \E a \in Answers : Attempt(a[1], a[2], TRUE, MaxTicks)
    /\ UNCHANGED << renderVars, op, variant, buildRequested, buildVars, path, ti,
                    resourceGroupName, httpStatus, worldVars,
                    fileTouched, checkedOut, errTarget >>

\* the entry of the credential list that is written: the last one
kubeconfigLast(ks) == ks[Len(ks)]
\* up.go:188: kubeconfig := kubeconfigs[0]
kubeconfig(ks) == ks[1]

\* up.go:184-187: an empty credential list is an error
KcPick ==
    /\ pc = "kc_pick"
    /\ IF Len(kubeconfigs) = 0
       THEN Return("err", "empty")
       ELSE pc' = "kc_mkdir" /\ UNCHANGED << ret, failedAt >>
    /\ UNCHANGED << renderVars, op, variant, log, buildRequested, buildVars, path, ti,
                    resourceGroupName, httpStatus, pollVars, worldVars,
                    fileTouched, checkedOut, errTarget >>

\* up.go:191-193: os.MkdirAll(defaultKubeconfigDir)
KcMkdir ==
    /\ pc = "kc_mkdir"
    /\ Call("MkdirAll", defaultKubeconfigDir, "")
    /\ \/ pc' = "kc_write" /\ UNCHANGED << ret, failedAt >>
       \/ Return("err", "mkdir")
    /\ UNCHANGED << renderVars, op, variant, buildRequested, buildVars, path, ti,
                    resourceGroupName, httpStatus, pollVars, worldVars,
                    fileTouched, checkedOut, errTarget >>

\* the first n elements of s
Prefix(s, n) == [ i \in 1..n |-> s[i] ]

\* up.go:194-196 and 233-236: ioutil.WriteFile opens the file with
\* O_CREATE|O_TRUNC, writes and closes.  The open can fail (file as it was);
\* the write or the close can fail after the file was created or emptied,
\* leaving any prefix of the value; otherwise the file holds the value.
KcWrite ==
    /\ pc = "kc_write"
    /\ LET dest == destPath(defaultKubeconfigDir, resourceGroupName, clusterName)
           value == kubeconfig(kubeconfigs)
       IN  /\ Call("WriteFile", dest, "")
           /\ \/ /\ UNCHANGED << fs, fileTouched >>
                 /\ Return("err", "write")
              \/ \E n \in 0..Len(value) :
                   /\ fs' = [ fs EXCEPT ![dest] = Prefix(value, n) ]
                   /\ fileTouched' = TRUE
                   /\ Return("err", "write")
              \/ /\ fs' = [ fs EXCEPT ![dest] = value ]
                 /\ fileTouched' = TRUE
                 /\ Continue("kubeconfig")
    /\ UNCHANGED << renderVars, op, variant, buildRequested, buildVars, path, ti,
                    resourceGroupName, rgs, cloneDir, httpStatus, pollVars,
                    checkedOut, errTarget >>

GetAKSKubeconfig == KcNewClient \/ PollFirst \/ PollTick \/ PollTickDropped
                      \/ PollTimeoutFires \/ KcPick \/ KcMkdir \/ KcWrite

(* ============ Down: part_000:27-54 and deployer.go:100-115 ============ *)

\* the harness calls Down
StartDown ==
    \E v \in DownVariants :
        /\ Begin("Down", v, IF v = "part_000" THEN "down_cred" ELSE "down_stub")
        /\ Target' = "" /\ TargetPath' = "" /\ TargetTag' = ""
        /\ UNCHANGED buildRequested

\* deployer.go:113-115: Down returns nil and does nothing else
DownStub ==
    /\ pc = "down_stub"
    /\ Return("ok", "none")
    /\ UNCHANGED << renderVars, op, variant, log, buildRequested, buildVars, path, ti,
                    resourceGroupName, httpStatus, pollVars, worldVars,
                    fileTouched, checkedOut, errTarget >>

\* part_000:41-45: NewDefaultAzureCredential; a failure ends the process
DownNewCredential ==
    /\ pc = "down_cred"
    /\ Call("NewDefaultAzureCredential", "", "")
    /\ \/ pc' = "down_delete" /\ UNCHANGED << ret, failedAt >>
       \/ Return("fatal", "cred")
    /\ UNCHANGED << renderVars, op, variant, buildRequested, buildVars, path, ti,
                    resourceGroupName, httpStatus, pollVars, worldVars,
                    fileTouched, checkedOut, errTarget >>

\* part_000:28-33 and 47-50: rgClient.BeginDelete; a failure ends the process
DownBeginDelete ==
    /\ pc = "down_delete"
    /\ Call("BeginDelete", resourceGroupName, "")
    /\ \/ pc' = "down_wait" /\ UNCHANGED << ret, failedAt >>
       \/ Return("fatal", "delete")
    /\ UNCHANGED << renderVars, op, variant, buildRequested, buildVars, path, ti,
                    resourceGroupName, httpStatus, pollVars, worldVars,
                    fileTouched, checkedOut, errTarget >>

\* part_000:34-37 and 47-53: poller.PollUntilDone blocks until the provider
\* reports the deletion finished (the group is gone) or failed
DownPollUntilDone ==
    /\ pc = "down_wait"
    /\ Call("PollUntilDone", resourceGroupName, "")
    /\ \/ rgs' = rgs \ {resourceGroupName} /\ Return("ok", "none")
       \/ UNCHANGED rgs /\ Return("fatal", "delete")
    /\ UNCHANGED << renderVars, op, variant, buildRequested, buildVars, path, ti,
                    resourceGroupName, fs, cloneDir, httpStatus, pollVars,
                    fileTouched, checkedOut, errTarget >>

Down == DownStub \/ DownNewCredential \/ DownBeginDelete \/ DownPollUntilDone

(* ============================ the system ============================== *)

Start == StartBuild \/ StartUp \/ StartDown

Next == Start \/ Build \/ Up \/ GetAKSKubeconfig \/ Down

Spec == Init /\ [][Next]_vars


(* ======= up.go:93-131: rendering of the cluster-creation request ====== *)

\* contents of cluster-templates/basic-lb.json in the model: every key once,
\* and a text with a repeated key, an unknown placeholder and no location
BasicLBFiles ==
    { << "{id:", "AKS_CLUSTER_ID", ",name:", "CLUSTER_NAME", ",loc:",
         "AZURE_LOCATION", ",app:", "AZURE_CLIENT_ID", ",key:",
         "AZURE_CLIENT_SECRET", ",ver:", "KUBERNETES_VERSION", ",cfg:",
         "CUSTOM_CONFIG", "}" >>,
      << "CLUSTER_NAME", "-", "CLUSTER_NAME", "UNKNOWN_KEY", "CUSTOM_CONFIG",
         "AZURE_CLIENT_SECRET", "AKS_CLUSTER_ID" >> }
\* contents of cluster-templates/customconfiguration.json in the model
CustomConfigFiles ==
    { << "ccm=", "CUSTOM_CCM_IMAGE", ";cnm=", "CUSTOM_CNM_IMAGE" >>,
      << "CUSTOM_CNM_IMAGE", "CUSTOM_CNM_IMAGE", "OTHER_IMAGE" >> }
\* values of --cluster-name, AZURE_CLIENT_SECRET and IMAGE_REGISTRY: plain
\* ones, and ones that spell the name of a placeholder
ClusterNames == {"aks-cluster", "AZURE_LOCATION"}
ClientSecrets == {"s3cret", "CUSTOM_CONFIG"}
ImageRegistries == {"reg.io", "CUSTOM_CNM_IMAGE"}
\* AZURE_SUBSCRIPTION_ID, AZURE_LOCATION, AZURE_CLIENT_ID and the image tag
subscriptionId == "sub-1"
location == "eastus"
clientID == "client-1"
imageTag == "abc1234"
\* up.go:43
k8sVersion == "1.24.0"

RECURSIVE ReplaceAll(_, _, _)
\* strings.ReplaceAll (up.go:112, 127, 131) for a non-empty `old`: the
\* non-overlapping occurrences of old, from the left, become new
ReplaceAll(str, old, new) ==
    IF Len(str) < Len(old) THEN str
    ELSE IF SubSeq(str, 1, Len(old)) = old
         THEN new \o ReplaceAll(SubSeq(str, Len(old) + 1, Len(str)), old, new)
         ELSE << str[1] >> \o ReplaceAll(Tail(str), old, new)

RECURSIVE Join(_)
\* the text of a sequence of chunks, as one string
Join(str) == IF str = << >> THEN "" ELSE str[1] \o Join(Tail(str))

\* up.go:130: base64.StdEncoding.EncodeToString: one chunk that is
\* determined by the text, differs from it, and (the base64 alphabet has no
\* '_') holds no placeholder name
EncodeToString(str) == << "base64(" \o Join(str) \o ")" >>

\* up.go:94: fmt.Sprintf of the cluster ID
clusterID(sub, rg, cn) ==
    << "/subscriptions/", sub, "/resourcegroups/", rg,
       "/providers/Microsoft.ContainerService/managedClusters/", cn >>

\* up.go:103-110: the map `replacing`
Replacing(rg, cn, secret) ==
    [ k \in { "AKS_CLUSTER_ID", "CLUSTER_NAME", "AZURE_LOCATION",
              "AZURE_CLIENT_ID", "AZURE_CLIENT_SECRET", "KUBERNETES_VERSION" } |->
        CASE k = "AKS_CLUSTER_ID" -> clusterID(subscriptionId, rg, cn)
          [] k = "CLUSTER_NAME" -> << cn >>
          [] k = "AZURE_LOCATION" -> << location >>
          [] k = "AZURE_CLIENT_ID" -> << clientID >>
          [] k = "AZURE_CLIENT_SECRET" -> << secret >>
          [] k = "KUBERNETES_VERSION" -> << k8sVersion >> ]

\* up.go:121-124: the map `imageMap`
ImageMap(registry, tag) ==
    [ k \in { "CUSTOM_CCM_IMAGE", "CUSTOM_CNM_IMAGE" } |->
        IF k = "CUSTOM_CCM_IMAGE"
        THEN << registry, "/azure-cloud-controller-manager:", tag >>
        ELSE << registry, "/azure-cloud-node-manager:", tag, "-linux-amd64" >> ]

\* up.go:97-110: createAKSWithCustomConfig has read basic-lb.json and built
\* `replacing`; the inputs are the two files and the configuration values
RenderInit ==
    /\ DeployInit
    /\ renderPc = "outer"
    /\ basicLBFile \in BasicLBFiles
    /\ customConfigFile \in CustomConfigFiles
    /\ \E cn \in ClusterNames, secret \in ClientSecrets :
          replacing = Replacing(resourceGroupName, cn, secret)
    /\ \E registry \in ImageRegistries : imageMap = ImageMap(registry, imageTag)
    /\ clusterConfig = basicLBFile
    /\ customConfig = << >>
    /\ todo = DOMAIN replacing

\* up.go:111-113: one iteration of `for k, v := range replacing`; Go visits
\* the keys of a map in an unspecified order
ReplaceOuter ==
    /\ renderPc = "outer"
    /\ \E k \in todo :
          /\ clusterConfig' = ReplaceAll(clusterConfig, << k >>, replacing[k])
          /\ todo' = todo \ {k}
    /\ UNCHANGED << deployVars, renderPc, basicLBFile, customConfigFile,
                    replacing, imageMap, customConfig >>

\* up.go:115-125: the loop is over; customconfiguration.json is read
ReadCustomConfig ==
    /\ renderPc = "outer"
    /\ todo = {}
    /\ renderPc' = "inner"
    /\ customConfig' = customConfigFile
    /\ todo' = DOMAIN imageMap
    /\ UNCHANGED << deployVars, basicLBFile, customConfigFile, replacing,
                    imageMap, clusterConfig >>

\* up.go:126-128: one iteration of `for k, v := range imageMap`
ReplaceInner ==
    /\ renderPc = "inner"
    /\ \E k \in todo :
          /\ customConfig' = ReplaceAll(customConfig, << k >>, imageMap[k])
          /\ todo' = todo \ {k}
    /\ UNCHANGED << deployVars, renderPc, basicLBFile, customConfigFile,
                    replacing, imageMap, clusterConfig >>

\* up.go:130-131: the rendered custom configuration is base64-encoded and
\* put in place of CUSTOM_CONFIG
EmbedCustomConfig ==
    /\ renderPc = "inner"
    /\ todo = {}
    /\ clusterConfig' =
          ReplaceAll(clusterConfig, << "CUSTOM_CONFIG" >>, EncodeToString(customConfig))
    /\ renderPc' = "done"
    /\ UNCHANGED << deployVars, basicLBFile, customConfigFile, replacing,
                    imageMap, todo, customConfig >>

RenderNext == ReplaceOuter \/ ReadCustomConfig \/ ReplaceInner \/ EmbedCustomConfig

RenderSpec == RenderInit /\ [][RenderNext]_vars


(* ============================ properties ============================== *)

\* the names of the calls made so far, in order
Names == [ i \in DOMAIN log |-> log[i][1] ]
\* a call of that name was made
Has(name) == \E i \in DOMAIN log : log[i][1] = name
\* how many calls of these names were made
Count(names) == Cardinality({ i \in DOMAIN log : log[i][1] \in names })
\* the calls of that name, in order
CallsOf(name) == SelectSeq(log, LAMBDA e : e[1] = name)
\* every call of name a precedes every call of name b
Before(a, b) ==
    \A j \in DOMAIN log :
        log[j][1] = b => \A i \in j..Len(log) : log[i][1] # a
\* the kubeconfig file of the configured resource group and cluster
Dest == defaultKubeconfigDir \o "/" \o resourceGroupName \o "_" \o clusterName
          \o ".kubeconfig"
\* s is a prefix of t
IsPrefix(s, t) == Len(s) <= Len(t) /\ \A i \in 1..Len(s) : s[i] = t[i]

UpGo == op = "Up" /\ variant = "up.go"

\* C1 (as claimed, for the two implementations of createAKSWithCustomConfig
\* the claim rests on, up.go and part_001): once the cluster-creation
\* response has a status >= 400, Up has returned an error, exactly one
\* creation request was sent and no credential request, directory creation
\* or kubeconfig write was made.
C1_StatusFailureAbortsUp ==
    (op = "Up" /\ variant \in {"up.go", "part_001"} /\ httpStatus >= 400) =>
        /\ pc = "idle" /\ ret = "err"
        /\ Count({"PUT", "POST"}) = 1
        /\ ~Has("ListClusterUserCredentials")
        /\ ~Has("MkdirAll") /\ ~Has("WriteFile")

\* C1 restricted to up.go, where the status is checked: it holds there.
C1_StatusFailureAbortsUp_upgo ==
    (UpGo /\ httpStatus >= 400) =>
        /\ pc = "idle" /\ ret = "err"
        /\ Count({"PUT", "POST"}) = 1
        /\ ~Has("ListClusterUserCredentials")
        /\ ~Has("MkdirAll") /\ ~Has("WriteFile")

\* C2 (as claimed): in Up of up.go the identity token is obtained before the
\* resource group is created-or-updated, then the payload is rendered, the
\* request submitted, and only then credentials are polled.
C2_TokenBeforeResourceGroup ==
    UpGo =>
        /\ Has("CreateOrUpdate") => Has("GetToken")
        /\ Before("GetToken", "CreateOrUpdate")
        /\ Before("CreateOrUpdate", "render")
        /\ Before("render", "PUT")
        /\ Before("PUT", "ListClusterUserCredentials")

\* C2 (amended): in Up of up.go the resource group is created-or-updated
\* first, then the identity token is obtained, then the payload is rendered,
\* then the request is submitted, and only then credentials are polled; a
\* step is started only after every earlier one was made, each at most once.
C2_StepsInOrder ==
    UpGo =>
        /\ Has("GetToken") => Has("CreateOrUpdate")
        /\ Has("render") => Has("GetToken")
        /\ Has("PUT") => Has("render")
        /\ Has("ListClusterUserCredentials") => Has("PUT")
        /\ Before("CreateOrUpdate", "GetToken")
        /\ Before("GetToken", "render")
        /\ Before("render", "PUT")
        /\ Before("PUT", "ListClusterUserCredentials")
        /\ \A n \in {"CreateOrUpdate", "GetToken", "render", "PUT"} :
               Count({n}) <= 1

\* C2 witness: an Up of up.go that got as far as polling for credentials
C2_Witness ==
    UpGo /\ Has("ListClusterUserCredentials") /\ Has("GetToken")

\* C3 (as claimed): an Up of up.go in a run without --build makes no git
\* or make call.
C3_NoBuildNoImageActions ==
    (UpGo /\ ~buildRequested) =>
        ~Has("git show") /\ ~Has("make") /\ ~Has("git rev-parse")

\* the step of Up a call belongs to, in the order of the body of up.go
StepRank(name) ==
    CASE name = "NewDefaultAzureCredential" -> 0
      [] name = "CreateOrUpdate" -> 1
      [] name = "GetToken" -> 2
      [] name \in {"git show", "make", "git rev-parse"} -> 3
      [] name \in {"render", "PUT"} -> 4
      [] OTHER -> 5
\* the step of Up a failure belongs to
FailRank(at) ==
    CASE at = "rg" -> 1
      [] at = "token" -> 2
      [] at = "images" -> 3
      [] at = "create" -> 4
      [] OTHER -> 5

\* C4: in Up of up.go, a failed step (resource-group creation, token fetch,
\* image build, cluster creation, credential retrieval) makes Up return an
\* error at once: the failing step's call is the last one made and no call
\* of a later step is made; Up never asks for a resource-group deletion, and
\* a resource group it created is still there.
C4_FailureAbortsUp ==
    UpGo =>
        /\ ~Has("BeginDelete")
        /\ (failedAt \notin {"none", "cred"}) =>
              /\ pc = "idle" /\ ret = "err"
              /\ log # << >>
              /\ StepRank(log[Len(log)][1]) = FailRank(failedAt)
              /\ \A i \in DOMAIN log : StepRank(log[i][1]) <= FailRank(failedAt)
        /\ ret = "err" => failedAt \notin {"none", "cred"}
        /\ (Has("GetToken") \/ failedAt \in {"token", "images", "create"}) =>
              resourceGroupName \in rgs

\* C4 witness: cluster creation failed after the resource group was created
C4_Witness ==
    UpGo /\ ret = "err" /\ failedAt = "create" /\ resourceGroupName \in rgs

\* C5: in the credential poller a "not found" answer leads to another
\* attempt, and any other error ends the poll: the poller has returned the
\* error and the failing request is the last call made.
C5_OnlyNotFoundIsRetried ==
    /\ (lastResp = "notfound" /\ ~chClosed) => pc = "poll_wait"
    /\ lastResp = "othererr" =>
          /\ pc = "idle" /\ ret = "err" /\ failedAt = "poll_error"
          /\ log[Len(log)][1] = "ListClusterUserCredentials"
          /\ ~Has("MkdirAll") /\ ~Has("WriteFile")

\* C5 witness: "not found" was retried, then another error ended the poll
C5_Witness ==
    lastResp = "othererr" /\ notFound >= 1 /\ attempts = notFound + 1

\* C6 (as claimed): the poll makes a bounded number of attempts, ends in a
\* timeout exactly when every answer was "not found", and makes no attempt
\* after the 3 min ceiling has elapsed.
C6_NoAttemptAfterCeiling ==
    /\ attempts <= MaxTicks + 2
    /\ failedAt = "poll_timeout" => notFound = attempts
    /\ lateAttempts = 0

\* C6 (amended): the poll makes a bounded number of attempts and ends; an
\* unbroken run of "not found" ends in a timeout failure, "not found"
\* followed by a success ends in success; once the 3 min timeout has fired
\* exactly one more attempt is made (the last check), after which the poll
\* is over.
C6_PollTerminates ==
    /\ elapsed <= MaxTicks
    /\ attempts <= MaxTicks + 2
    /\ pc = "poll_wait" => (attempts >= 1 /\ attempts <= elapsed + 1)
    /\ lateAttempts <= 1
    /\ chClosed <=> lateAttempts = 1
    /\ chClosed => pc \notin {"poll_first", "poll_wait"}
    /\ failedAt = "poll_timeout" <=> (chClosed /\ lastResp = "notfound")
    /\ failedAt = "poll_timeout" => (notFound = attempts /\ ret = "err")
    /\ lastResp = "ok" => failedAt \notin {"poll_timeout", "poll_error"}
    /\ (pc \in {"idle", "kc_pick"} /\ attempts > 0 /\ notFound = attempts) =>
          failedAt = "poll_timeout"

\* C6 witness: every attempt up to and including the last check after the
\* timeout answered "not found"
C6_Witness ==
    failedAt = "poll_timeout" /\ lateAttempts = 1 /\ attempts = MaxTicks + 2

\* C7 (as claimed): when getAKSKubeconfig succeeds the kubeconfig file holds
\* the bytes of the first credential entry, and when it fails no kubeconfig
\* file was written by the invocation.
C7_AllOrNothing ==
    (UpGo /\ pc = "idle") =>
        /\ ret = "ok" => (fileTouched /\ fs[Dest] = kubeconfigs[1])
        /\ ret = "err" => ~fileTouched

\* C7 (amended): when getAKSKubeconfig succeeds the kubeconfig file holds
\* the bytes of the first credential entry; when it fails before the write
\* (poll failure, timeout, empty list, directory creation) no kubeconfig file
\* was touched; when the write itself fails the file is either as it was or
\* holds a prefix of those bytes.  No other file is ever written.
C7_WriteOrError ==
    UpGo =>
        /\ (pc = "idle" /\ ret = "ok") =>
              /\ Len(kubeconfigs) >= 1
              /\ fileTouched /\ fs[Dest] = kubeconfigs[1]
        /\ (ret = "err" /\ failedAt # "write") => ~fileTouched
        /\ (ret = "err" /\ failedAt = "write" /\ fileTouched) =>
              (fs[Dest] # NoFile /\ IsPrefix(fs[Dest], kubeconfigs[1]))
        /\ pc # "idle" => ~fileTouched
        /\ \A p \in DOMAIN fs : p # Dest => fs[p] = NoFile

\* C7 witness: success with two different credential entries returned
C7_Witness ==
    /\ UpGo /\ pc = "idle" /\ ret = "ok" /\ fileTouched
    /\ Len(kubeconfigs) = 2 /\ kubeconfigs[1] # kubeconfigs[2]
    /\ Len(kubeconfigs[1]) = MaxBytes

\* C8 (as claimed): when Down has returned success, the deletion of the
\* configured resource group was requested, its completion was awaited, and
\* the resource group is gone.
C8_DownDeletesResourceGroup ==
    (op = "Down" /\ pc = "idle" /\ ret = "ok") =>
        /\ Names = << "NewDefaultAzureCredential", "BeginDelete", "PollUntilDone" >>
        /\ log[2][2] = resourceGroupName
        /\ resourceGroupName \notin rgs

\* C8 restricted to part_000, whose Down calls deleteResourceGroup: it holds.
C8_DownDeletesResourceGroup_part000 ==
    (op = "Down" /\ variant = "part_000" /\ pc = "idle" /\ ret = "ok") =>
        /\ Names = << "NewDefaultAzureCredential", "BeginDelete", "PollUntilDone" >>
        /\ log[2][2] = resourceGroupName
        /\ resourceGroupName \notin rgs

\* a BuildRequest is valid: component of the allow-list, exactly one of
\* path and tag
ValidRequest(t, p, g) ==
    /\ t \in {"cloud-provider-azure", "azure-file", "azure-disk"}
    /\ (p = "") # (g = "")

\* C9: a Build whose request is not valid returns a validation error and has
\* made no clone, subprocess or network call.
C9_BuildValidatesFirst ==
    (op = "Build" /\ ~ValidRequest(Target, TargetPath, TargetTag)) =>
        /\ log = << >>
        /\ pc \in {"build_verify", "idle"}
        /\ pc = "idle" => (ret = "err" /\ failedAt = "verify")

\* C9 witness: a request with both path and tag was rejected
C9_Witness ==
    /\ op = "Build" /\ pc = "idle" /\ ret = "err" /\ failedAt = "verify"
    /\ Target = "cloud-provider-azure" /\ TargetPath # "" /\ TargetTag # ""

\* the four build actions in the order claimed
ExpectedMakeOrder ==
    << "build-ccm-image-amd64", "push-ccm-image-amd64",
       "build-node-image-linux-amd64", "push-node-image-linux-amd64" >>

\* the working tree a successful Build ran on and what it ran there
BuiltOn(tree) ==
    /\ CallsOf("git show") = << << "git show", tree, "--stat" >> >>
    /\ CallsOf("make") = [ i \in 1..4 |-> << "make", tree, ExpectedMakeOrder[i] >> ]
    /\ Before("git show", "make")
    /\ Before("make", "git rev-parse")

\* C10 (as claimed): a successful Build of any valid request resolved a
\* working tree and ran the four build actions on it once each, in order.
C10_ValidBuildRunsAllTargets ==
    (op = "Build" /\ pc = "idle" /\ ret = "ok") =>
        /\ ValidRequest(Target, TargetPath, TargetTag)
        /\ \E tree \in {TargetPath, ccmPath} : tree # "" /\ BuiltOn(tree)

\* C10 (amended): a successful Build of a valid request for
\* cloud-provider-azure resolved a working tree (the given path, or the
\* scratch clone when a tag is given) and ran the four build actions on it
\* once each, in order; for the other components of the allow-list Build
\* succeeds without any call.
C10_CCMBuildRunsAllTargets ==
    (op = "Build" /\ pc = "idle" /\ ret = "ok") =>
        /\ ValidRequest(Target, TargetPath, TargetTag)
        /\ IF Target = "cloud-provider-azure"
           THEN IF TargetPath # ""
                THEN BuiltOn(TargetPath) /\ ~Has("clone")
                ELSE /\ BuiltOn(gitClonePath \o "/cloud-provider-azure")
                     /\ Count({"clone"}) = 1 /\ cloneDir
                     /\ Before("clone", "git show")
           ELSE log = << >>

\* C10 witness: a successful Build of cloud-provider-azure by tag
C10_Witness ==
    /\ op = "Build" /\ pc = "idle" /\ ret = "ok"
    /\ Target = "cloud-provider-azure" /\ TargetTag # "" /\ Has("make")


\* C11 (as claimed): a Build by tag whose clone or whose checkout of
\* refs/tags/<tag> failed returns an error and runs no build or push action;
\* a successful Build by tag has checked the tag out.
C11_TagBuildNeedsCheckout ==
    (op = "Build" /\ TargetTag # "" /\ TargetPath = "") =>
        /\ failedAt \in {"clone", "clone_exists"} =>
              (pc = "idle" /\ ret = "err" /\ ~Has("make"))
        /\ checkedOut = "failed" => (~Has("make") /\ ret # "ok")
        /\ (pc = "idle" /\ ret = "ok" /\ Has("make")) => checkedOut = "ok"

\* C11 restricted to the clone, whose error build.go:98-100 returns: it holds.
C11_CloneFailureAbortsBuild ==
    (op = "Build" /\ failedAt \in {"clone", "clone_exists"}) =>
        /\ pc = "idle" /\ ret = "err"
        /\ ~Has("checkout") /\ ~Has("git show") /\ ~Has("make")

\* C12 (as claimed): a Build by tag succeeds whether or not the scratch
\* directory is left from an earlier invocation, as long as the clone source
\* and the build actions themselves succeed.
C12_TagBuildRepeatable ==
    (/\ op = "Build" /\ pc = "idle" /\ Has("clone")
     /\ failedAt \notin {"clone", "show", "make", "revparse"}) => ret = "ok"


\* C13: the image build (makeCCMImages of Build, makeImages of Up) runs the
\* make targets in their fixed order and fails fast: once a target has
\* failed the failing make is the last call made, no later target and no
\* git rev-parse (the image tag) follows, an error is returned, and the
\* error names the failing target.
C13_FailFast ==
    LET makes == CallsOf("make")
        last == log[Len(log)]
        makeFailed == \/ failedAt = "make"
                      \/ (failedAt = "images" /\ last[1] = "make")
    IN  /\ Len(makes) <= 4
        /\ \A i \in 1..Len(makes) : makes[i][3] = ExpectedMakeOrder[i]
        /\ Has("git rev-parse") => (Len(makes) = 4 /\ errTarget = "")
        /\ makeFailed => errTarget # ""
        /\ errTarget # "" =>
              /\ pc = "idle" /\ ret = "err"
              /\ last[1] = "make" /\ last[3] = errTarget
              /\ errTarget = ExpectedMakeOrder[Len(makes)]
              /\ ~Has("git rev-parse")

\* C13 witness: the third target failed in a Build, after two that succeeded
C13_Witness ==
    /\ op = "Build" /\ errTarget = "build-node-image-linux-amd64"
    /\ Len(CallsOf("make")) = 3


RECURSIVE Subst(_, _)
\* the text with every chunk that is a key of m replaced by m's value for
\* it, all at once; the other chunks stay
Subst(str, m) ==
    IF str = << >> THEN << >>
    ELSE (IF str[1] \in DOMAIN m THEN m[str[1]] ELSE << str[1] >>)
            \o Subst(Tail(str), m)

\* the request body the claim describes: the custom configuration with its
\* placeholders substituted, base64-encoded, standing where CUSTOM_CONFIG
\* stood in the cluster template, whose other placeholders are substituted
RenderedAsClaimed ==
    LET inner == Subst(customConfigFile, imageMap)
        code == "base64(" \o Join(inner) \o ")"
        m == [ k \in DOMAIN replacing \cup {"CUSTOM_CONFIG"} |->
                 IF k = "CUSTOM_CONFIG" THEN << code >> ELSE replacing[k] ]
    IN  Subst(basicLBFile, m)

\* no value of the two maps holds the name of a placeholder
ValuesHoldNoKey ==
    LET keys == DOMAIN replacing \cup DOMAIN imageMap \cup {"CUSTOM_CONFIG"}
    IN  /\ \A k \in DOMAIN replacing :
              \A i \in DOMAIN replacing[k] : replacing[k][i] \notin keys
        /\ \A k \in DOMAIN imageMap :
              \A i \in DOMAIN imageMap[k] : imageMap[k][i] \notin keys

\* C14 (as claimed): whatever the order in which the keys were applied, the
\* rendered request body is the template with every occurrence of a key of
\* the mapping replaced by the key's value, the other placeholders left as
\* they are, and the base64 of the rendered custom configuration exactly
\* where CUSTOM_CONFIG stood.
C14_RenderIsSubstitution ==
    renderPc = "done" => clusterConfig = RenderedAsClaimed

\* C14 for values that hold no placeholder name: it holds.
C14_RenderIsSubstitution_plainValues ==
    (renderPc = "done" /\ ValuesHoldNoKey) => clusterConfig = RenderedAsClaimed

=============================================================================
